---- MODULE Spec2Model ----
(***************************************************************************)
(* Customers backend: the business-rule layer (customer.usecase.mjs) over  *)
(* the record-access layer (customer.repository.mjs) over the SQLite       *)
(* schema (customer.model.mjs).                                            *)
(*                                                                         *)
(* JavaScript objects are functions from property names to values: a       *)
(* property the object does not have is a name outside its DOMAIN.         *)
(* JavaScript values of the isPrimary property are written as their source *)
(* literal: "true" and "false" are the booleans, "1" the number one.       *)
(*                                                                         *)
(* Scheduling.  The store driver (better-sqlite3) is synchronous, so every *)
(* `await` of the business layer awaits an already computed value: the     *)
(* continuation is a microtask, and the microtask queue is drained before  *)
(* the event loop dispatches the next request.  A request handler therefore*)
(* runs to completion (or to its exception) before another one starts, and *)
(* each operation is one action.  What is NOT atomic is the group of       *)
(* statements of an operation: an exception ends the operation and keeps   *)
(* the writes made so far, except inside db.transaction, which rolls back. *)
(*                                                                         *)
(* Specifications.  Spec runs every writing operation and getCustomerById  *)
(* from the empty store.  ListSpec applies getCustomers and parsePagination*)
(* to stores whose text columns are sequences of characters.  CreateSpec   *)
(* runs create with the request body kept, and getCustomerById.            *)
(* UpdateSpec runs create on two bodies and update with the id and the     *)
(* patch kept.                                                             *)
(***************************************************************************)
EXTENDS Integers, Sequences, FiniteSets, TLC

\* customers, addresses   the rows of the two tables (customer.model.mjs)
\* sqlite_sequence        the AUTOINCREMENT counter of each table
\* last                   the last completed call and its outcome
VARIABLES customers, addresses, sqlite_sequence, last

vars == <<customers, addresses, sqlite_sequence, last>>

\* ------------------------------------------------------------- bounds
\* AUTOINCREMENT never reuses an id; the counters are capped in the guards.
MaxCustomerId == 2
MaxAddressId == 3
\* Longest nested address list of a createCustomer payload.
MaxNested == 2
\* Longest nested address list of a round trip.
MaxRoundTrip == 3
\* Customers of a listed store with varied names, and of a uniform one.
MaxListed == 2
MaxBulk == 25

\* ------------------------------------------------------- JavaScript values
Has(o, k) == k \in DOMAIN o

\* ToBoolean of a value written as its literal.
ToBoolean(v) == v \notin {"false", "0", "null", "undefined", "''"}

\* Truthiness of o[k]; an absent property reads undefined.
Truthy(o, k) == Has(o, k) /\ ToBoolean(o[k])

\* { ...base, ...o }: the properties of o override those of base.
Spread(base, o) ==
  [x \in DOMAIN base \cup DOMAIN o |-> IF x \in DOMAIN o THEN o[x] ELSE base[x]]

\* obj with property k set to v (object spread followed by k: v).
With(o, k, v) == [x \in DOMAIN o \cup {k} |-> IF x = k THEN v ELSE o[x]]

\* obj without property k.
Without(o, k) == [x \in DOMAIN o \ {k} |-> o[x]]

\* String.prototype.trim on a string held as a sequence of characters.
RECURSIVE LTrim(_)
LTrim(s) == IF s # <<>> /\ Head(s) = " " THEN LTrim(Tail(s)) ELSE s

RECURSIVE RTrim(_)
RTrim(s) == IF s # <<>> /\ s[Len(s)] = " " THEN RTrim(SubSeq(s, 1, Len(s) - 1)) ELSE s

Trim(s) == RTrim(LTrim(s))

\* ------------------------------------------------------------ the store
DB == [customers |-> customers, addresses |-> addresses, seq |-> sqlite_sequence]

\* Result of a statement or of a group of statements: the store it leaves,
\* the error it threw ("none" when it returned) with the error's details,
\* and what it returned.
Ok(db, ret) == [db |-> db, err |-> "none", ret |-> ret, details |-> {}]
Threw(db, err) == [db |-> db, err |-> err, ret |-> [found |-> FALSE], details |-> {}]

\* e = new Error('Validation failed'); e.details = error.details.map(d => d.message)
\* Each message is named by the path it is about.
ValidationFailed(db, errors) == [Threw(db, "Validation failed") EXCEPT !.details = errors]

AddressesOf(db, customerId) == {a \in db.addresses : a.customerId = customerId}

\* ORDER BY id ASC alone.
Before_ById(a, b) == a.id < b.id

\* ORDER BY isPrimary DESC, id ASC
Before(a, b) == a.isPrimary > b.isPrimary \/ (a.isPrimary = b.isPrimary /\ a.id < b.id)

RECURSIVE OrderAddresses(_)
OrderAddresses(S) ==
  IF S = {} THEN <<>>
  ELSE LET first == CHOOSE a \in S : \A b \in S \ {a} : Before(a, b)
       IN <<first>> \o OrderAddresses(S \ {first})

\* getCustomerById: null, or the row with hasOnlyOneAddress as a boolean and
\* its addresses.
NullCustomer == [found |-> FALSE]

getCustomerById(db, id) ==
  IF \E c \in db.customers : c.id = id
  THEN LET row == CHOOSE c \in db.customers : c.id = id
       IN [found |-> TRUE,
           id |-> row.id,
           firstName |-> row.firstName,
           lastName |-> row.lastName,
           phone |-> row.phone,
           email |-> row.email,
           accountType |-> row.accountType,
           hasOnlyOneAddress |-> (row.hasOnlyOneAddress # 0),
           addresses |-> OrderAddresses(AddressesOf(db, id))]
  ELSE NullCustomer

\* Binding an object to a statement: every named parameter of the statement
\* must be an own property of the object; other properties are ignored.
MissingNamedParameter(params, names) == \E n \in names : ~Has(params, n)

CustomerInsertParams ==
  {"firstName", "lastName", "phone", "email", "accountType", "hasOnlyOneAddress"}

\* repository createCustomer: INSERT INTO customers, then getCustomerById.
\* phone is UNIQUE; the id is the next AUTOINCREMENT value.
repo_createCustomer(db, data) ==
  LET params == With(data, "hasOnlyOneAddress", IF data.hasOnlyOneAddress # 0 THEN 1 ELSE 0)
  IN IF MissingNamedParameter(params, CustomerInsertParams)
     THEN Threw(db, "RangeError")
     ELSE IF \E c \in db.customers : c.phone = params.phone
     THEN Threw(db, "SQLITE_CONSTRAINT_UNIQUE")
     ELSE LET id == db.seq.customers + 1
              row == [id |-> id,
                      firstName |-> params.firstName,
                      lastName |-> params.lastName,
                      phone |-> params.phone,
                      email |-> params.email,
                      accountType |-> params.accountType,
                      hasOnlyOneAddress |-> params.hasOnlyOneAddress]
              db1 == [db EXCEPT !.customers = @ \cup {row}, !.seq.customers = id]
          IN Ok(db1, getCustomerById(db1, id))

\* The keys updateCustomer copies from the patch.
CustomerPatchKeys == {"firstName", "lastName", "phone", "email", "accountType"}

\* A patch that also resets the hasOnlyOneAddress column of the row.
PatchRow_ResetsFlag(row, patch, keys) ==
  [k \in DOMAIN row |-> IF k \in keys /\ Has(patch, k) THEN patch[k]
                        ELSE IF k = "hasOnlyOneAddress" THEN 0 ELSE row[k]]

PatchRow(row, patch, keys) ==
  [k \in DOMAIN row |-> IF k \in keys /\ Has(patch, k) THEN patch[k] ELSE row[k]]

\* repository updateCustomer: UPDATE of the supplied fields WHERE id = @id.
repo_updateCustomer(db, id, patch) ==
  IF \A k \in CustomerPatchKeys : ~Has(patch, k)
  THEN Ok(db, getCustomerById(db, id))
  ELSE IF \E c \in db.customers : c.id = id
  THEN LET old == CHOOSE c \in db.customers : c.id = id
           new == PatchRow(old, patch, CustomerPatchKeys)
       IN IF \E c \in db.customers : c.id # id /\ c.phone = new.phone
          THEN Threw(db, "SQLITE_CONSTRAINT_UNIQUE")
          ELSE LET db1 == [db EXCEPT !.customers = (@ \ {old}) \cup {new}]
               IN Ok(db1, getCustomerById(db1, id))
  ELSE Ok(db, NullCustomer)

\* A DELETE that removes the customer row and leaves its addresses.
repo_deleteCustomer_NoCascade(db, id) ==
  IF \E c \in db.customers : c.id = id
  THEN [db |-> [db EXCEPT !.customers = {c \in @ : c.id # id}],
        err |-> "none", ret |-> TRUE]
  ELSE [db |-> db, err |-> "none", ret |-> FALSE]

\* repository deleteCustomer: DELETE FROM customers WHERE id = ?; the foreign
\* key of addresses is ON DELETE CASCADE.  Returns info.changes > 0.
repo_deleteCustomer(db, id) ==
  IF \E c \in db.customers : c.id = id
  THEN [db |-> [db EXCEPT !.customers = {c \in @ : c.id # id},
                          !.addresses = {a \in @ : a.customerId # id}],
        err |-> "none", ret |-> TRUE]
  ELSE [db |-> db, err |-> "none", ret |-> FALSE]

\* A phone check that finds nothing.
existsByPhone_Never(db, phone) == FALSE

existsByPhone(db, phone) == \E c \in db.customers : c.phone = phone

\* An email check that finds nothing.
existsByEmail_Never(db, email) == FALSE

existsByEmail(db, email) ==
  IF email = "" THEN FALSE ELSE \E c \in db.customers : c.email = email

\* ------------------------------------------------- address operations
\* db.transaction(fn): BEGIN, fn, COMMIT; an exception thrown by fn rolls the
\* store back to what it was at BEGIN and is thrown again.
\* Statements run one after the other with no rollback.
transaction_NoRollback(db, r) == r

transaction(db, r) == IF r.err = "none" THEN r ELSE [r EXCEPT !.db = db]

\* UPDATE addresses SET isPrimary = 0 WHERE customerId = ?
ClearPrimary(db, customerId) ==
  [db EXCEPT !.addresses =
     {IF a.customerId = customerId THEN [a EXCEPT !.isPrimary = 0] ELSE a : a \in @}]

\* cnt >= 1 in place of cnt === 1.
OnlyOneFlag_AtLeastOne(cnt) == IF cnt >= 1 THEN 1 ELSE 0

\* cnt === 1 ? 1 : 0
OnlyOneFlag(cnt) == IF cnt = 1 THEN 1 ELSE 0

\* SELECT COUNT(*) FROM addresses WHERE customerId = ?
CountAddresses(db, customerId) == Cardinality(AddressesOf(db, customerId))

\* UPDATE customers SET hasOnlyOneAddress = ? WHERE id = ?
SetOnlyOne(db, customerId, flag) ==
  [db EXCEPT !.customers =
     {IF c.id = customerId THEN [c EXCEPT !.hasOnlyOneAddress = flag] ELSE c : c \in @}]

\* The recount that ends addAddress, updateAddress and deleteAddress.
RecomputeOnlyOne(db, customerId) ==
  SetOnlyOne(db, customerId, OnlyOneFlag(CountAddresses(db, customerId)))

AddressInsertParams ==
  {"customerId", "line1", "line2", "city", "state", "country", "pincode", "isPrimary", "status"}

\* INSERT INTO addresses bound to { customerId, ...address, isPrimary, status }.
\* The foreign key customerId REFERENCES customers(id) is enforced.
InsertAddress(db, customerId, address) ==
  LET spread == Spread([customerId |-> customerId], address)
      p1 == With(spread, "isPrimary", IF Truthy(address, "isPrimary") THEN 1 ELSE 0)
      params == With(p1, "status", IF Has(address, "status") THEN address.status ELSE "active")
  IN IF MissingNamedParameter(params, AddressInsertParams)
     THEN Threw(db, "RangeError")
     ELSE IF ~\E c \in db.customers : c.id = params.customerId
     THEN Threw(db, "SQLITE_CONSTRAINT_FOREIGNKEY")
     ELSE LET id == db.seq.addresses + 1
              row == [id |-> id,
                      customerId |-> params.customerId,
                      line1 |-> params.line1,
                      line2 |-> params.line2,
                      city |-> params.city,
                      state |-> params.state,
                      country |-> params.country,
                      pincode |-> params.pincode,
                      isPrimary |-> params.isPrimary,
                      status |-> params.status]
          IN Ok([db EXCEPT !.addresses = @ \cup {row}, !.seq.addresses = id], NullCustomer)

\* The function addAddress hands to db.transaction.
addAddress_tx(db, customerId, address) ==
  LET db1 == IF Truthy(address, "isPrimary") THEN ClearPrimary(db, customerId) ELSE db
      ins == InsertAddress(db1, customerId, address)
  IN IF ins.err # "none" THEN ins
     ELSE LET db2 == RecomputeOnlyOne(ins.db, customerId)
          IN Ok(db2, getCustomerById(db2, customerId))

repo_addAddress(db, customerId, address) ==
  transaction(db, addAddress_tx(db, customerId, address))

\* The keys updateAddress copies from the patch.
AddressPatchKeys ==
  {"line1", "line2", "city", "state", "country", "pincode", "isPrimary", "status"}

\* params[k] of updateAddress: isPrimary is stored as patch[k] ? 1 : 0.
AddressPatchParams(patch) ==
  [k \in DOMAIN patch \cap AddressPatchKeys |->
     IF k = "isPrimary" THEN (IF ToBoolean(patch[k]) THEN 1 ELSE 0) ELSE patch[k]]

\* The function updateAddress hands to db.transaction.
updateAddress_tx(db, customerId, addressId, patch) ==
  LET db1 == IF Has(patch, "isPrimary") /\ patch.isPrimary = "true"
             THEN ClearPrimary(db, customerId) ELSE db
      params == AddressPatchParams(patch)
      db2 == IF DOMAIN params # {}
             THEN [db1 EXCEPT !.addresses =
                     {IF a.id = addressId /\ a.customerId = customerId
                      THEN PatchRow(a, params, AddressPatchKeys) ELSE a : a \in @}]
             ELSE db1
      db3 == RecomputeOnlyOne(db2, customerId)
  IN Ok(db3, getCustomerById(db3, customerId))

repo_updateAddress(db, customerId, addressId, patch) ==
  transaction(db, updateAddress_tx(db, customerId, addressId, patch))

\* The function deleteAddress hands to db.transaction.
deleteAddress_tx(db, customerId, addressId) ==
  LET db1 == [db EXCEPT !.addresses =
                {a \in @ : ~(a.id = addressId /\ a.customerId = customerId)}]
      db2 == RecomputeOnlyOne(db1, customerId)
  IN Ok(db2, getCustomerById(db2, customerId))

repo_deleteAddress(db, customerId, addressId) ==
  transaction(db, deleteAddress_tx(db, customerId, addressId))

\* markOnlyOneAddress whose first test is cnt === 0 in place of cnt !== 1.
repo_markOnlyOneAddress_ZeroOnly(db, customerId, value) ==
  LET cnt == Cardinality(AddressesOf(db, customerId))
  IN IF value /\ cnt = 0
     THEN Threw(db, "Cannot mark as Only One Address unless exactly one exists")
     ELSE IF ~value /\ cnt <= 1
     THEN Threw(db, "Cannot unmark when there are not multiple addresses")
     ELSE LET db1 == [db EXCEPT !.customers =
                        {IF c.id = customerId
                         THEN [c EXCEPT !.hasOnlyOneAddress = IF value THEN 1 ELSE 0]
                         ELSE c : c \in @}]
          IN Ok(db1, getCustomerById(db1, customerId))

\* A markOnlyOneAddress whose unmark guard is left out.
repo_markOnlyOneAddress_UnmarkAny(db, customerId, value) ==
  LET cnt == CountAddresses(db, customerId)
  IN IF value /\ cnt # 1
     THEN Threw(db, "Cannot mark as Only One Address unless exactly one exists")
     ELSE LET db1 == SetOnlyOne(db, customerId, IF value THEN 1 ELSE 0)
          IN Ok(db1, getCustomerById(db1, customerId))

\* repository markOnlyOneAddress; value is a boolean.  The errors carry
\* status 400.
repo_markOnlyOneAddress(db, customerId, value) ==
  LET cnt == CountAddresses(db, customerId)
  IN IF value /\ cnt # 1
     THEN Threw(db, "Cannot mark as Only One Address unless exactly one exists")
     ELSE IF ~value /\ cnt <= 1
     THEN Threw(db, "Cannot unmark when there are not multiple addresses")
     ELSE LET db1 == SetOnlyOne(db, customerId, IF value THEN 1 ELSE 0)
          IN Ok(db1, getCustomerById(db1, customerId))

\* ------------------------------------------------------- business layer
\* The status property of a thrown error; 0 when the error has none (the
\* driver's RangeError and SqliteError) and when nothing was thrown.
StatusOf(err) ==
  CASE err \in {"Validation failed", "Only one address can be primary",
                "Cannot mark as Only One Address unless exactly one exists",
                "Cannot unmark when there are not multiple addresses"} -> 400
    [] err \in {"Phone already exists", "Email already exists",
                "Phone already used", "Email already used"} -> 409
    [] err = "Customer not found" -> 404
    [] OTHER -> 0

\* phone: Joi.string().trim().min(6)
PhoneMinLength == 6

\* Joi.string().email(): the well-formed addresses among the inputs.
IsEmail(e) == e \in {"a@x.io", "b@x.io"}

\* The address object of createSchema: the paths that fail.  Unknown keys are
\* not allowed; isPrimary must be a boolean.
AddressSchemaKeys ==
  {"line1", "line2", "city", "state", "country", "pincode", "isPrimary", "status"}

AddressErrors(a) ==
  {k \in {"line1", "city", "state", "pincode"} : ~Has(a, k)}
  \cup {k \in DOMAIN a : k \notin AddressSchemaKeys}
  \cup (IF Has(a, "isPrimary") /\ a.isPrimary \notin {"true", "false"}
        THEN {"isPrimary"} ELSE {})
  \cup (IF Has(a, "status") /\ a.status \notin {"active", "inactive"}
        THEN {"status"} ELSE {})

\* The address as validation returns it: country and status defaulted.
AddressValue(a) ==
  LET a1 == IF Has(a, "country") THEN a ELSE With(a, "country", "India")
  IN IF Has(a1, "status") THEN a1 ELSE With(a1, "status", "active")

CreateSchemaKeys == {"firstName", "lastName", "phone", "email", "accountType", "addresses"}

AccountTypes == {"standard", "premium", "enterprise"}

\* A validation that stops at the first required field that is missing.
CreateErrors_AbortEarly(p) ==
  IF ~Has(p, "firstName") THEN {"firstName"}
  ELSE IF ~Has(p, "lastName") THEN {"lastName"}
  ELSE IF ~Has(p, "phone") THEN {"phone"}
  ELSE {}

\* createSchema.validate(payload, { abortEarly: false }): every failing path.
CreateErrors(p) ==
  {k \in {"firstName", "lastName", "phone"} : ~Has(p, k)}
  \cup {k \in DOMAIN p : k \notin CreateSchemaKeys}
  \cup (IF Has(p, "phone") /\ Len(Trim(p.phone)) < PhoneMinLength THEN {"phone"} ELSE {})
  \cup (IF Has(p, "email") /\ p.email # "" /\ ~IsEmail(p.email) THEN {"email"} ELSE {})
  \cup (IF Has(p, "accountType") /\ p.accountType \notin AccountTypes
        THEN {"accountType"} ELSE {})
  \cup (IF Has(p, "addresses")
        THEN UNION {AddressErrors(p.addresses[i]) : i \in DOMAIN p.addresses}
        ELSE {})

\* The value validation returns: phone trimmed, accountType defaulted,
\* addresses normalised.  (The names among the inputs carry no padding.)
CreateValue(p) ==
  LET p1 == With(p, "phone", Trim(p.phone))
      p2 == IF Has(p1, "accountType") THEN p1 ELSE With(p1, "accountType", "standard")
  IN IF Has(p2, "addresses")
     THEN With(p2, "addresses",
               [i \in DOMAIN p.addresses |-> AddressValue(p.addresses[i])])
     ELSE p2

\* A count that finds no primary address.
CountPrimary_None(addrs) == 0

\* value.addresses.filter(a => a.isPrimary).length
CountPrimary(addrs) == Cardinality({i \in DOMAIN addrs : Truthy(addrs[i], "isPrimary")})

\* for (const addr of value.addresses) await this.repo.addAddress(customer.id, addr)
\* The first addAddress that throws ends the loop; the earlier ones stay.
RECURSIVE AddEach(_, _, _)
AddEach(db, customerId, addrs) ==
  IF addrs = <<>> THEN Ok(db, NullCustomer)
  ELSE LET r == repo_addAddress(db, customerId, Head(addrs))
       IN IF r.err # "none" THEN r ELSE AddEach(r.db, customerId, Tail(addrs))

\* createCustomer with neither the phone check nor the UNIQUE constraint of the
\* phone column behind it.
usecase_createCustomer_PhoneUnchecked(db, payload) ==
  IF CreateErrors(payload) # {} THEN ValidationFailed(db, CreateErrors(payload))
  ELSE
    LET value == CreateValue(payload)
        nested == IF Has(value, "addresses") THEN value.addresses ELSE <<>>
    IN IF Has(value, "email") /\ value.email # "" /\ existsByEmail(db, value.email)
       THEN Threw(db, "Email already exists")
       ELSE IF CountPrimary(nested) > 1 THEN Threw(db, "Only one address can be primary")
       ELSE IF ~Has(value, "email") THEN Threw(db, "RangeError")
       ELSE
         LET id == db.seq.customers + 1
             row == [id |-> id,
                     firstName |-> value.firstName,
                     lastName |-> value.lastName,
                     phone |-> value.phone,
                     email |-> value.email,
                     accountType |-> value.accountType,
                     hasOnlyOneAddress |-> IF Len(nested) = 1 THEN 1 ELSE 0]
             db1 == [db EXCEPT !.customers = @ \cup {row}, !.seq.customers = id]
             added == AddEach(db1, id, nested)
         IN IF added.err # "none" THEN added
            ELSE Ok(added.db, getCustomerById(added.db, id))

\* createCustomer with the primary count taken before the phone and email
\* checks.
usecase_createCustomer_PrimaryFirst(db, payload) ==
  IF CreateErrors(payload) # {} THEN ValidationFailed(db, CreateErrors(payload))
  ELSE
    LET value == CreateValue(payload)
        nested == IF Has(value, "addresses") THEN value.addresses ELSE <<>>
    IN IF CountPrimary(nested) > 1 THEN Threw(db, "Only one address can be primary")
       ELSE IF existsByPhone(db, value.phone) THEN Threw(db, "Phone already exists")
       ELSE IF Has(value, "email") /\ value.email # "" /\ existsByEmail(db, value.email)
       THEN Threw(db, "Email already exists")
       ELSE
         LET hasOnlyOneAddress == IF Len(nested) = 1 THEN 1 ELSE 0
             customer == repo_createCustomer(db, With(value, "hasOnlyOneAddress", hasOnlyOneAddress))
         IN IF customer.err # "none" THEN customer
            ELSE IF Len(nested) > 0
            THEN LET added == AddEach(customer.db, customer.ret.id, nested)
                 IN IF added.err # "none" THEN added
                    ELSE Ok(added.db, getCustomerById(added.db, customer.ret.id))
            ELSE customer

\* CustomerUsecase.createCustomer
usecase_createCustomer(db, payload) ==
  IF CreateErrors(payload) # {} THEN ValidationFailed(db, CreateErrors(payload))
  ELSE
    LET value == CreateValue(payload)
        nested == IF Has(value, "addresses") THEN value.addresses ELSE <<>>
    IN IF existsByPhone(db, value.phone) THEN Threw(db, "Phone already exists")
       ELSE IF Has(value, "email") /\ value.email # "" /\ existsByEmail(db, value.email)
       THEN Threw(db, "Email already exists")
       ELSE IF CountPrimary(nested) > 1 THEN Threw(db, "Only one address can be primary")
       ELSE
         LET hasOnlyOneAddress == IF Len(nested) = 1 THEN 1 ELSE 0
             customer == repo_createCustomer(db, With(value, "hasOnlyOneAddress", hasOnlyOneAddress))
         IN IF customer.err # "none" THEN customer
            ELSE IF Len(nested) > 0
            THEN LET added == AddEach(customer.db, customer.ret.id, nested)
                 IN IF added.err # "none" THEN added
                    ELSE Ok(added.db, getCustomerById(added.db, customer.ret.id))
            ELSE customer

\* The keys of updateSchema; .or(...) requires one of them.
UpdateSchemaKeys == {"firstName", "lastName", "phone", "email", "accountType"}

\* updateSchema.validate(payload, { abortEarly: false }): every failing path.
UpdateErrors(p) ==
  {k \in DOMAIN p : k \notin UpdateSchemaKeys}
  \cup (IF DOMAIN p \cap UpdateSchemaKeys = {} THEN {"object.missing"} ELSE {})
  \cup (IF Has(p, "phone") /\ Len(Trim(p.phone)) < PhoneMinLength THEN {"phone"} ELSE {})
  \cup (IF Has(p, "email") /\ ~IsEmail(p.email) THEN {"email"} ELSE {})
  \cup (IF Has(p, "accountType") /\ p.accountType \notin AccountTypes
        THEN {"accountType"} ELSE {})

UpdateValue(p) == IF Has(p, "phone") THEN With(p, "phone", Trim(p.phone)) ELSE p

\* statement.get(): the first row of the result, in rowid order.
FirstRow(rows) == CHOOSE c \in rows : \A d \in rows : c.id <= d.id

\* A test that takes every holder for another customer.
HeldByAnyone(rows, id) == rows # {}

\* exists && exists.id !== Number(id)
HeldByAnother(rows, id) == rows # {} /\ FirstRow(rows).id # id

\* CustomerUsecase.updateCustomer
usecase_updateCustomer(db, id, payload) ==
  IF UpdateErrors(payload) # {} THEN ValidationFailed(db, UpdateErrors(payload))
  ELSE
    LET value == UpdateValue(payload)
        byPhone == IF Has(value, "phone")
                   THEN {c \in db.customers : c.phone = value.phone} ELSE {}
        byEmail == IF Has(value, "email")
                   THEN {c \in db.customers : c.email = value.email} ELSE {}
    IN IF HeldByAnother(byPhone, id) THEN Threw(db, "Phone already used")
       ELSE IF HeldByAnother(byEmail, id) THEN Threw(db, "Email already used")
       ELSE LET updated == repo_updateCustomer(db, id, value)
            IN IF updated.err # "none" THEN updated
               ELSE IF ~updated.ret.found THEN Threw(updated.db, "Customer not found")
               ELSE updated

\* CustomerUsecase.deleteCustomer
usecase_deleteCustomer(db, id) ==
  LET ok == repo_deleteCustomer(db, id)
  IN IF ~ok.ret THEN Threw(ok.db, "Customer not found")
     ELSE Ok(ok.db, [deletedId |-> id])

\* CustomerUsecase.getCustomerById
usecase_getCustomerById(db, id) ==
  LET c == getCustomerById(db, id)
  IN IF ~c.found THEN Threw(db, "Customer not found") ELSE Ok(db, c)

\* The address delegations.
usecase_addAddress(db, customerId, address) == repo_addAddress(db, customerId, address)

usecase_updateAddress(db, customerId, addressId, patch) ==
  repo_updateAddress(db, customerId, addressId, patch)

usecase_deleteAddress(db, customerId, addressId) ==
  repo_deleteAddress(db, customerId, addressId)

\* Boolean(value)
usecase_markOnlyOneAddress(db, customerId, value) ==
  repo_markOnlyOneAddress(db, customerId, ToBoolean(value))

\* ---------------------------------------------------------- utilities
\* Text is a sequence of characters.  The characters U+0020 .. U+005F and the
\* lower-case letters U+0061 .. U+007A, in code order.
Ascii32to95 ==
  <<
    " ", "!", "\"", "#", "$", "%", "&", "'", "(", ")", "*", "+", ",",
    "-", ".", "/", "0", "1", "2", "3", "4", "5", "6", "7", "8", "9",
    ":", ";", "<", "=", ">", "?", "@", "A", "B", "C", "D", "E", "F",
    "G", "H", "I", "J", "K", "L", "M", "N", "O", "P", "Q", "R", "S",
    "T", "U", "V", "W", "X", "Y", "Z", "[", "\\", "]", "^", "_"
  >>

LowerCaseLetters ==
  <<
    "a", "b", "c", "d", "e", "f", "g", "h", "i", "j", "k", "l", "m",
    "n", "o", "p", "q", "r", "s", "t", "u", "v", "w", "x", "y", "z"
  >>

CharCode(c) ==
  IF \E i \in DOMAIN Ascii32to95 : Ascii32to95[i] = c
  THEN 31 + CHOOSE i \in DOMAIN Ascii32to95 : Ascii32to95[i] = c
  ELSE 96 + CHOOSE i \in DOMAIN LowerCaseLetters : LowerCaseLetters[i] = c

\* A folding that changes no character.
Lower_Identity(c) == c

\* The case folding of LIKE: the 26 upper-case ASCII letters fold to lower case.
LowerOf == [c \in {Ascii32to95[i] : i \in 34..59} |-> LowerCaseLetters[CharCode(c) - 64]]
Lower(c) == IF c \in DOMAIN LowerOf THEN LowerOf[c] ELSE c

\* escapeLike: s.replace(/[%_]/g, '\\$&') puts a backslash before each % and _.
RECURSIVE escapeLike(_)
escapeLike(s) ==
  IF s = <<>> THEN <<>>
  ELSE IF Head(s) \in {"%", "_"} THEN <<"\\", Head(s)>> \o escapeLike(Tail(s))
  ELSE <<Head(s)>> \o escapeLike(Tail(s))

\* x LIKE pat of SQLite, without an ESCAPE clause: % matches any run of
\* characters, _ matches one character, every other character (the backslash
\* too) matches itself, letters without regard to case.
RECURSIVE Like(_, _)
Like(pat, str) ==
  IF pat = <<>> THEN str = <<>>
  ELSE IF Head(pat) = "%"
  THEN Like(Tail(pat), str) \/ (str # <<>> /\ Like(pat, Tail(str)))
  ELSE IF str = <<>> THEN FALSE
  ELSE IF Head(pat) = "_" THEN Like(Tail(pat), Tail(str))
  ELSE Lower(Head(pat)) = Lower(Head(str)) /\ Like(Tail(pat), Tail(str))

\* JavaScript numbers: an integer or NaN.
Num(n) == [nan |-> FALSE, v |-> n]
NaN == [nan |-> TRUE, v |-> 0]

\* A query value is a string, [str |-> characters], or a number, [num |-> n].
IsFalsy(x) == IF Has(x, "str") THEN x.str = <<>> ELSE x.num = 0

Digits == <<"0", "1", "2", "3", "4", "5", "6", "7", "8", "9">>
IsDigit(c) == \E i \in DOMAIN Digits : Digits[i] = c
DigitValue(c) == (CHOOSE i \in DOMAIN Digits : Digits[i] = c) - 1

\* The value of the longest prefix of digits, NaN when there is none.
RECURSIVE ParseDigits(_, _, _)
ParseDigits(s, acc, seen) ==
  IF s # <<>> /\ IsDigit(Head(s))
  THEN ParseDigits(Tail(s), 10 * acc + DigitValue(Head(s)), TRUE)
  ELSE IF seen THEN Num(acc) ELSE NaN

\* parseInt(x, 10): leading blanks, an optional sign, then digits; what follows
\* the digits is ignored.  A number is first written out, and an integer
\* written out parses to itself.
parseInt(x) ==
  IF Has(x, "num") THEN Num(x.num)
  ELSE LET s == LTrim(x.str)
       IN IF s # <<>> /\ Head(s) = "-"
          THEN LET d == ParseDigits(Tail(s), 0, FALSE)
               IN IF d.nan THEN NaN ELSE Num(0 - d.v)
          ELSE IF s # <<>> /\ Head(s) = "+" THEN ParseDigits(Tail(s), 0, FALSE)
          ELSE ParseDigits(s, 0, FALSE)

\* Math.max, Math.min, * and -: NaN when an argument is NaN.
MathMax(a, b) == IF a.nan \/ b.nan THEN NaN ELSE Num(IF a.v >= b.v THEN a.v ELSE b.v)
MathMin(a, b) == IF a.nan \/ b.nan THEN NaN ELSE Num(IF a.v <= b.v THEN a.v ELSE b.v)
Times(a, b) == IF a.nan \/ b.nan THEN NaN ELSE Num(a.v * b.v)
Minus(a, b) == IF a.nan \/ b.nan THEN NaN ELSE Num(a.v - b.v)

\* query.page || '1'
OrDefault(query, k, default) ==
  IF Has(query, k) /\ ~IsFalsy(query[k]) THEN query[k] ELSE [str |-> default]

\* parsePagination (pagination.utils.mjs)
parsePagination(query) ==
  LET page == MathMax(Num(1), parseInt(OrDefault(query, "page", <<"1">>)))
      limit == MathMin(Num(100), MathMax(Num(1), parseInt(OrDefault(query, "limit", <<"1", "0">>))))
  IN [page |-> page, limit |-> limit, offset |-> Times(Minus(page, Num(1)), limit)]

\* String.prototype.toUpperCase on one character.
UpperOf == [c \in {LowerCaseLetters[i] : i \in 1..26} |-> Ascii32to95[CharCode(c) - 63]]
Upper(c) == IF c \in DOMAIN UpperOf THEN UpperOf[c] ELSE c

\* The BINARY collation: text compares character by character in code order.
RECURSIVE TextLess(_, _)
TextLess(s, t) ==
  IF t = <<>> THEN FALSE
  ELSE IF s = <<>> THEN TRUE
  ELSE IF Head(s) # Head(t) THEN CharCode(Head(s)) < CharCode(Head(t))
  ELSE TextLess(Tail(s), Tail(t))

\* The columns of customers that hold numbers; createdAt, a timestamp text of
\* one-second resolution, is held as its number of seconds.
NumericColumns == {"id", "hasOnlyOneAddress", "createdAt"}

\* The columns the q filter of getCustomers looks at.
SearchedCustomerColumns == {"firstName", "lastName", "phone", "email"}
SearchedAddressColumns == {"line1", "city", "state", "pincode"}

\* A truthy text property of the query.
HasText(query, k) == Has(query, k) /\ query[k] # <<>>

\* params.q = `%${escapeLike(query.q)}%`
QPattern(query) == <<"%">> \o escapeLike(query.q) \o <<"%">>

\* customers LEFT JOIN addresses: the address rows joined to a customer, or
\* one row of NULLs (a row without columns) when it has none.
JoinedAddresses(db, c) ==
  IF AddressesOf(db, c.id) = {} THEN {<<>>} ELSE AddressesOf(db, c.id)

\* The WHERE clause getCustomers builds (filters.join(' AND ')) on one joined
\* row; a comparison with NULL is not true.
RowPasses(c, a, query) ==
  /\ HasText(query, "q")
       => \/ \E col \in SearchedCustomerColumns : Like(QPattern(query), c[col])
          \/ \E col \in SearchedAddressColumns : Has(a, col) /\ Like(QPattern(query), a[col])
  /\ \A col \in {"city", "state", "pincode"} :
       HasText(query, col) => (Has(a, col) /\ a[col] = query[col])
  /\ (Has(query, "onlyOneAddress") /\ query.onlyOneAddress = "true")
       => c.hasOnlyOneAddress = 1
  /\ (Has(query, "onlyOneAddress") /\ query.onlyOneAddress = "false")
       => c.hasOnlyOneAddress = 0

Matching(db, query) ==
  {c \in db.customers : \E a \in JoinedAddresses(db, c) : RowPasses(c, a, query)}

\* FROM customers LEFT JOIN addresses ... WHERE ...: the joined rows that
\* pass, one for every address of the customer that passes with it.
JoinedRows(db, query) ==
  UNION {{[c |-> c, a |-> a] : a \in {x \in JoinedAddresses(db, c) : RowPasses(c, x, query)}} :
           c \in db.customers}

\* COUNT(DISTINCT customers.id)
CountDistinctId(rows) == Cardinality({r.c.id : r \in rows})

\* repository countCustomers
countCustomers(db, query) == CountDistinctId(JoinedRows(db, query))

\* A SELECT customers.* that keeps one row per joined row: dup tells the
\* equal rows of the result apart.
SelectDistinct_All(rows) ==
  {[row |-> r.c, dup |-> IF Has(r.a, "id") THEN r.a.id ELSE 0] : r \in rows}

\* SELECT DISTINCT customers.*: the customer columns of the joined rows, equal
\* rows once.
SelectDistinct(rows) == {[row |-> r.c, dup |-> 0] : r \in rows}

\* c sorts strictly before d under ORDER BY customers.<sortBy> <sortDir>.
SortsBefore(c, d, sortBy, asc) ==
  LET less(x, y) == IF sortBy \in NumericColumns THEN x[sortBy] < y[sortBy]
                    ELSE TextLess(x[sortBy], y[sortBy])
  IN IF asc THEN less(c, d) ELSE less(d, c)

\* The orders the selected rows can come in: sorted by the column, rows with
\* equal values in any order.
RECURSIVE Rankings(_, _, _)
Rankings(S, sortBy, asc) ==
  IF S = {} THEN {<<>>}
  ELSE UNION {{<<c>> \o t : t \in Rankings(S \ {c}, sortBy, asc)} :
                c \in {x \in S : ~\E y \in S : SortsBefore(y.row, x.row, sortBy, asc)}}

\* A LIMIT that starts at the first row whatever the OFFSET.
LimitOffset_FromStart(rows, limit, offset) ==
  SubSeq(rows, 1, IF limit < Len(rows) THEN limit ELSE Len(rows))

\* LIMIT @limit OFFSET @offset; a negative LIMIT is no limit, a negative OFFSET
\* is none.
LimitOffset(rows, limit, offset) ==
  LET from == IF offset < 0 THEN 1 ELSE offset + 1
      to == IF limit < 0 \/ from + limit - 1 > Len(rows) THEN Len(rows) ELSE from + limit - 1
  IN IF from > to THEN <<>> ELSE SubSeq(rows, from, to)

\* rows.map(...): hasOnlyOneAddress as a boolean, the addresses attached.
Hydrate(db, r) ==
  With(With(r, "hasOnlyOneAddress", r.hasOnlyOneAddress # 0),
       "addresses", OrderAddresses(AddressesOf(db, r.id)))

\* repository findCustomers: the item lists the SELECT can return.
findCustomers(db, query, sortBy, asc, limit, offset) ==
  {LET rows == LimitOffset(r, limit, offset)
   IN [i \in DOMAIN rows |-> Hydrate(db, rows[i].row)] :
     r \in Rankings(SelectDistinct(JoinedRows(db, query)), sortBy, asc)}

\* Math.ceil(total / limit) || 0
Pages(total, limit) ==
  LET ceil == (total + limit - 1) \div limit
  IN IF ceil = 0 THEN 0 ELSE ceil

\* The text of a statement is the sequence of its pieces.
\* filters: the conditions getCustomers pushes, in the order of the pushes.
Filters(query) ==
  (IF HasText(query, "q")
   THEN <<"(customers.firstName LIKE @q OR customers.lastName LIKE @q OR customers.phone LIKE @q OR customers.email LIKE @q OR addresses.line1 LIKE @q OR addresses.city LIKE @q OR addresses.state LIKE @q OR addresses.pincode LIKE @q)">>
   ELSE <<>>)
  \o (IF HasText(query, "city") THEN <<"addresses.city = @city">> ELSE <<>>)
  \o (IF HasText(query, "state") THEN <<"addresses.state = @state">> ELSE <<>>)
  \o (IF HasText(query, "pincode") THEN <<"addresses.pincode = @pincode">> ELSE <<>>)
  \o (IF Has(query, "onlyOneAddress") /\ query.onlyOneAddress = "true"
      THEN <<"customers.hasOnlyOneAddress = 1">>
      ELSE IF Has(query, "onlyOneAddress") /\ query.onlyOneAddress = "false"
      THEN <<"customers.hasOnlyOneAddress = 0">> ELSE <<>>)

\* filterQuery ? `WHERE ${filterQuery}` : '' with filters.join(' AND ')
WhereText(filters) ==
  IF filters = <<>> THEN <<>>
  ELSE <<"WHERE", filters[1]>>
         \o [i \in 1..(2 * (Len(filters) - 1)) |->
               IF i % 2 = 1 THEN "AND" ELSE filters[(i \div 2) + 1]]

\* The statement countCustomers prepares.
CountText(filters) ==
  <<"SELECT COUNT(DISTINCT customers.id) as cnt FROM customers LEFT JOIN addresses ON customers.id = addresses.customerId">>
  \o WhereText(filters)

\* The statement findCustomers prepares: sortBy and sortDir are put into it.
FindText(filters, sortBy, sortDir) ==
  <<"SELECT DISTINCT customers.* FROM customers LEFT JOIN addresses ON customers.id = addresses.customerId">>
  \o WhereText(filters)
  \o <<"ORDER BY customers.", sortBy, sortDir, "LIMIT @limit OFFSET @offset">>

\* query.sortBy || 'createdAt'
SortByOf(query) ==
  IF Has(query, "sortBy") /\ query.sortBy # "" THEN query.sortBy ELSE "createdAt"

\* (query.sortDir || 'desc').toUpperCase() === 'ASC'
IsAsc(query) ==
  LET dir == IF HasText(query, "sortDir") THEN query.sortDir ELSE <<"d", "e", "s", "c">>
  IN [i \in DOMAIN dir |-> Upper(dir[i])] = <<"A", "S", "C">>

\* The texts of the two statements getCustomers has the store prepare.
QueryTexts(query) ==
  <<CountText(Filters(query)),
    FindText(Filters(query), SortByOf(query), IF IsAsc(query) THEN "ASC" ELSE "DESC")>>

CustomerColumns ==
  {"id", "firstName", "lastName", "phone", "email", "accountType", "hasOnlyOneAddress",
   "createdAt", "updatedAt"}

\* CustomerUsecase.getCustomers: the results the call can have.  NaN is bound
\* as NULL, and a LIMIT or OFFSET of NULL is a datatype mismatch; a sortBy
\* that names no column fails to prepare.
usecase_getCustomers(db, query) ==
  LET pg == parsePagination(query)
      sortBy == SortByOf(query)
      asc == IsAsc(query)
      total == countCustomers(db, query)
  IN IF sortBy \notin CustomerColumns THEN {Threw(db, "SQLITE_ERROR")}
     ELSE IF pg.limit.nan \/ pg.offset.nan THEN {Threw(db, "SQLITE_MISMATCH")}
     ELSE {Ok(db, [items |-> items, total |-> total, page |-> pg.page.v,
                   limit |-> pg.limit.v, pages |-> Pages(total, pg.limit.v)]) :
             items \in findCustomers(db, query, sortBy, asc, pg.limit.v, pg.offset.v)}

\* ------------------------------------------------------------- inputs
Phone1 == <<"9", "8", "7", "6", "5", "4">>
Phone2 == <<"9", "8", "7", "6", "5", "5">>
PaddedPhone1 == <<" ">> \o Phone1 \o <<" ">>
ShortPhone == <<"1", "2", "3", "4", "5">>

CustomerIds == 1..MaxCustomerId
AddressIds == 1..MaxAddressId

AddressBase == [line1 |-> "12 Elm St", city |-> "Pune", state |-> "MH", pincode |-> "411001"]

\* Nested addresses of a createCustomer payload: primary, not primary, and
\* one without the optional line2.
NestedAddressInputs ==
  {With(With(AddressBase, "line2", ""), "isPrimary", v) : v \in {"true", "false"}}
  \cup {AddressBase}

NestedLists ==
  UNION {[1..n -> NestedAddressInputs] : n \in 1..MaxNested}

PersonBase == [firstName |-> "Ann", lastName |-> "Lee"]

\* Payloads that differ in shape: required fields missing, a short phone,
\* a malformed or an absent email.
ShapePayloads ==
  {[k \in ks |-> IF k = "firstName" THEN "Ann"
                 ELSE IF k = "lastName" THEN "Lee"
                 ELSE IF k = "phone" THEN Phone1 ELSE ""] :
     ks \in {s \cup {"email"} : s \in SUBSET {"firstName", "lastName", "phone"}}}
  \cup {With(With(PersonBase, "phone", ShortPhone), "email", ""),
        With(With(PersonBase, "phone", Phone2), "email", "not-an-email"),
        With(PersonBase, "phone", Phone2),
        With(With(With(PersonBase, "phone", Phone2), "email", ""), "addresses",
             <<With(With(AddressBase, "line2", ""), "isPrimary", "1")>>)}

\* Well-formed payloads without addresses or with an empty list.
PlainPayloads ==
  LET base == {With(With(PersonBase, "phone", ph), "email", em) :
                 ph \in {Phone1, Phone2, PaddedPhone1}, em \in {"", "a@x.io"}}
  IN base \cup {With(b, "addresses", <<>>) : b \in base}

\* Well-formed payloads with one or more nested addresses.
NestedPayloads ==
  {With(With(With(PersonBase, "phone", ph), "email", ""), "addresses", l) :
     ph \in {Phone1, Phone2}, l \in NestedLists}

CreatePayloads == ShapePayloads \cup PlainPayloads \cup NestedPayloads

CustomerPatches ==
  {[phone |-> ph] : ph \in {Phone1, Phone2, PaddedPhone1, ShortPhone}}
  \cup {[email |-> em] : em \in {"a@x.io", ""}}
  \cup {[firstName |-> "Ann"], [phone |-> Phone1, email |-> "a@x.io"], <<>>}

\* Bodies of POST /:id/addresses: the repository binds them as they come.
FullAddress == With(With(AddressBase, "line2", ""), "country", "India")

AddressInputs ==
  {FullAddress}
  \cup {With(FullAddress, "isPrimary", v) : v \in {"true", "1"}}
  \cup {Without(FullAddress, "line2"), With(Without(FullAddress, "line2"), "isPrimary", "true")}
  \cup {With(With(FullAddress, "isPrimary", "true"), "customerId", c) : c \in CustomerIds}

AddressPatches ==
  {[isPrimary |-> v] : v \in {"true", "false", "1"}}
  \cup {<<>>}

MarkValues == {"true", "false"}

\* ------------------------------------------------------ listing inputs
\* Stores for getCustomers.  Their text columns are sequences of characters,
\* so that LIKE and the collation have characters to look at.
TwoDigits(n) == <<Digits[(n \div 10) + 1], Digits[(n % 10) + 1]>>

ListedCustomer(id, firstName, createdAt, addressCount) ==
  [id |-> id, firstName |-> firstName, lastName |-> <<"L", "e", "e">>,
   phone |-> <<"9", "8", "7", "6">> \o TwoDigits(id), email |-> <<>>, accountType |-> "standard",
   hasOnlyOneAddress |-> IF addressCount = 1 THEN 1 ELSE 0,
   createdAt |-> createdAt, updatedAt |-> createdAt]

ListedAddress(id, customerId) ==
  [id |-> id, customerId |-> customerId, line1 |-> <<"1", "2", " ", "E", "l", "m", " ", "S", "t">>, line2 |-> <<>>,
   city |-> <<"P", "u", "n", "e">>, state |-> <<"M", "H">>, country |-> <<"I", "n", "d", "i", "a">>, pincode |-> <<"4", "1", "1", "0", "0", "1">>,
   isPrimary |-> 1, status |-> "active"]

\* First names: plain, with an underscore, with a backslash.
ListedNames == {<<"A", "n", "n">>, <<"a", "_", "b">>, <<"a", "\\", "b">>}

\* Up to MaxListed customers with any of the names, the first with one
\* address or none, created in different seconds or all in the same one.
SmallStores ==
  {[customers |-> {ListedCustomer(i, st[2][i], IF st[4] THEN 1 ELSE i,
                                   IF i \in st[3] THEN 1 ELSE 0) : i \in 1..st[1]},
    addresses |-> {ListedAddress(i, i) : i \in st[3]},
    seq |-> [customers |-> st[1], addresses |-> Cardinality(st[3])]] :
     st \in UNION {{<<n, f, A, t>> : f \in [1..n -> ListedNames], A \in SUBSET (1..n) \cap {{}, {1}},
                                     t \in BOOLEAN} : n \in 0..MaxListed}}

\* More customers, each with a name, a phone and a second of creation of
\* its own.
BulkStores ==
  {[customers |-> {ListedCustomer(i, <<"A", "n", "n">> \o TwoDigits(i), i, 0) : i \in 1..n},
    addresses |-> {},
    seq |-> [customers |-> n, addresses |-> 0]] : n \in (MaxBulk - 1)..MaxBulk}

\* A second address of a customer: equal to the first in every searched
\* column, or in another city and state.
SecondAddress(id, customerId, same) ==
  IF same THEN ListedAddress(id, customerId)
  ELSE [ListedAddress(id, customerId) EXCEPT
          !.line1 = <<"7", " ", "O", "a", "k", " ", "A", "v", "e">>,
          !.city = <<"B", "l", "r">>, !.state = <<"K", "A">>,
          !.pincode = <<"5", "6", "0", "0", "0", "1">>, !.isPrimary = 0]

\* The first customer with two addresses, alone or with a customer that has
\* none.
TwoAddressStores ==
  {[customers |-> {ListedCustomer(1, <<"A", "n", "n">>, 1, 2)}
                    \cup {ListedCustomer(i, <<"a", "_", "b">>, i, 0) : i \in 2..n},
    addresses |-> {ListedAddress(1, 1), SecondAddress(2, 1, same)},
    seq |-> [customers |-> n, addresses |-> 2]] : n \in 1..MaxListed, same \in BOOLEAN}

ListedStores == SmallStores \cup BulkStores \cup TwoAddressStores

SearchQueries ==
  {[q |-> x] : x \in {<<"a", "n">>, <<"A", "N">>, <<"_">>, <<"%">>, <<"a", "_", "b">>, <<"l", "e", "e">>, <<"p", "u", "n", "e">>, <<"z", "z">>}}
  \cup {[city |-> <<"P", "u", "n", "e">>], [q |-> <<"a", "n">>, city |-> <<"P", "u", "n", "e">>], [onlyOneAddress |-> "true"],
        [onlyOneAddress |-> "false"], [q |-> <<>>]}

\* page and limit as req.query gives them (strings) and as a caller of the
\* usecase gives them (numbers).
PageValues ==
  {[num |-> n] : n \in {-1, 0, 2}} \cup {[str |-> x] : x \in {<<"2">>, <<"a", "b", "c">>, <<" ", "3">>}}

LimitValues ==
  {[num |-> n] : n \in {-5, 0, 10, 101}} \cup {[str |-> x] : x \in {<<"x">>, <<"2", "0">>, <<"2", ".", "5">>}}

PagingQueries ==
  {<<>>}
  \cup {[page |-> pv] : pv \in PageValues}
  \cup {[limit |-> lv] : lv \in LimitValues}
  \cup {[page |-> [num |-> 2], limit |-> [num |-> 10]],
        [page |-> [str |-> <<"2">>], limit |-> [str |-> <<"2", "0">>]],
        [page |-> [str |-> <<"a", "b", "c">>], limit |-> [str |-> <<"x">>]],
        [page |-> [num |-> -1], limit |-> [num |-> 101]]}

SortQueries ==
  {[sortBy |-> "id", sortDir |-> <<"a", "s", "c">>], [sortBy |-> "id", sortDir |-> <<"A", "S", "C">>],
   [sortBy |-> "firstName"], [sortBy |-> "nope"], [sortDir |-> <<"A", "s", "c">>],
   [sortBy |-> "id", sortDir |-> <<"a", "s", "c">>, page |-> [num |-> 2], limit |-> [num |-> 1]]}

\* Queries that page through the list.
PagedQueries ==
  {<<>>, [page |-> [str |-> <<"a", "b", "c">>]], [limit |-> [str |-> <<"x">>]],
   [page |-> [str |-> <<"2">>], limit |-> [str |-> <<"1", "0">>]]}
  \cup {[page |-> [num |-> p], limit |-> [num |-> l]] : p \in {1, 2, 3}, l \in {1, 2, 10}}

\* Queries with several filters at once.
CombinedQueries ==
  {[city |-> <<"P", "u", "n", "e">>, state |-> <<"M", "H">>],
   [city |-> <<"P", "u", "n", "e">>, state |-> <<"K", "A">>],
   [city |-> <<"B", "l", "r">>, pincode |-> <<"4", "1", "1", "0", "0", "1">>],
   [q |-> <<"o", "a", "k">>, city |-> <<"P", "u", "n", "e">>],
   [q |-> <<"a", "n", "n">>, state |-> <<"K", "A">>, onlyOneAddress |-> "false"],
   [city |-> <<"P", "u", "n", "e">>, onlyOneAddress |-> "true"],
   [state |-> <<"M", "H">>, onlyOneAddress |-> "yes"],
   [pincode |-> <<"5", "6", "0", "0", "0", "1">>]}

ListQueries == SearchQueries \cup PagedQueries \cup SortQueries \cup CombinedQueries

\* ------------------------------------------------------------ actions
\* The last completed call: its name, the error it threw ("none" when it
\* returned) with the error's status and details, and what it returned.  Of
\* its arguments:
\*   customerId  the customer id given to addAddress and markOnlyOneAddress;
\*   addressId   the id of the address a successful addAddress inserted;
\*   flag        addAddress: address.isPrimary is truthy; markOnlyOneAddress:
\*               the value; createCustomer: the payload is valid and its
\*               phone is held by a customer at the time of the call;
\*               updateCustomer: the patch is valid and its phone or its
\*               email is held by a customer other than id at that time;
\*   n           createCustomer: the number of nested addresses;
\*   input       getCustomers and parsePagination: the query object; create
\*               and update: the request body;
\*   text        getCustomers: the texts of the statements it had prepared.
NoCall == [op |-> "none", err |-> "none", status |-> 0, details |-> {},
           ret |-> NullCustomer, customerId |-> 0, addressId |-> 0, flag |-> FALSE,
           n |-> 0, input |-> <<>>, text |-> <<>>]

Init ==
  /\ customers = {}
  /\ addresses = {}
  /\ sqlite_sequence = [customers |-> 0, addresses |-> 0]
  /\ last = NoCall

\* The store after the call, and the record of the call.
Completes(r, call) ==
  /\ customers' = r.db.customers
  /\ addresses' = r.db.addresses
  /\ sqlite_sequence' = r.db.seq
  /\ last' = [call EXCEPT !.err = r.err, !.status = StatusOf(r.err),
                           !.details = r.details, !.ret = r.ret]

NestedCount(payload) == IF Has(payload, "addresses") THEN Len(payload.addresses) ELSE 0

createCustomer(payload) ==
  /\ sqlite_sequence.customers < MaxCustomerId
  /\ sqlite_sequence.addresses + NestedCount(payload) <= MaxAddressId
  /\ Completes(usecase_createCustomer(DB, payload),
               [NoCall EXCEPT !.op = "createCustomer", !.n = NestedCount(payload),
                  !.flag = /\ CreateErrors(payload) = {}
                           /\ \E c \in customers : c.phone = Trim(payload.phone)])

updateCustomer(id, payload) ==
  /\ id \in CustomerIds
  /\ Completes(usecase_updateCustomer(DB, id, payload),
               [NoCall EXCEPT !.op = "updateCustomer",
                  !.flag = /\ UpdateErrors(payload) = {}
                           /\ \E c \in customers :
                                /\ c.id # id
                                /\ \/ Has(payload, "phone") /\ c.phone = Trim(payload.phone)
                                   \/ Has(payload, "email") /\ c.email = payload.email])

deleteCustomer(id) ==
  /\ id \in CustomerIds
  /\ Completes(usecase_deleteCustomer(DB, id), [NoCall EXCEPT !.op = "deleteCustomer"])

getById(id) ==
  /\ id \in CustomerIds
  /\ Completes(usecase_getCustomerById(DB, id), [NoCall EXCEPT !.op = "getCustomerById"])

addAddress(customerId, address) ==
  /\ sqlite_sequence.addresses < MaxAddressId
  /\ LET r == usecase_addAddress(DB, customerId, address)
     IN Completes(r, [NoCall EXCEPT !.op = "addAddress", !.customerId = customerId,
                        !.addressId = IF r.err = "none" THEN r.db.seq.addresses ELSE 0,
                        !.flag = Truthy(address, "isPrimary")])

updateAddress(customerId, addressId, patch) ==
  /\ customerId \in CustomerIds
  /\ Completes(usecase_updateAddress(DB, customerId, addressId, patch),
               [NoCall EXCEPT !.op = "updateAddress"])

deleteAddress(customerId, addressId) ==
  /\ customerId \in CustomerIds
  /\ Completes(usecase_deleteAddress(DB, customerId, addressId),
               [NoCall EXCEPT !.op = "deleteAddress"])

markOnlyOneAddress(customerId, value) ==
  /\ customerId \in CustomerIds
  /\ Completes(usecase_markOnlyOneAddress(DB, customerId, value),
               [NoCall EXCEPT !.op = "markOnlyOneAddress", !.customerId = customerId,
                  !.flag = ToBoolean(value)])

Next ==
  \/ \E payload \in CreatePayloads : createCustomer(payload)
  \/ \E id \in CustomerIds, payload \in CustomerPatches : updateCustomer(id, payload)
  \/ \E id \in CustomerIds : deleteCustomer(id)
  \/ \E id \in CustomerIds : getById(id)
  \/ \E id \in CustomerIds, address \in AddressInputs : addAddress(id, address)
  \/ \E id \in CustomerIds, addressId \in AddressIds, patch \in AddressPatches :
       updateAddress(id, addressId, patch)
  \/ \E id \in CustomerIds, addressId \in AddressIds : deleteAddress(id, addressId)
  \/ \E id \in CustomerIds, value \in MarkValues : markOnlyOneAddress(id, value)

Spec == Init /\ [][Next]_vars

\* ------------------------------------------------------------ listing
\* getCustomers reads and writes nothing, and parsePagination is a function
\* of the query: they are applied to stores and queries drawn at the start.
ListInit ==
  /\ \E store \in ListedStores :
       /\ customers = store.customers
       /\ addresses = store.addresses
       /\ sqlite_sequence = store.seq
  /\ last = NoCall

list(query) ==
  /\ query \in ListQueries
  /\ \E r \in usecase_getCustomers(DB, query) :
       Completes(r, [NoCall EXCEPT !.op = "getCustomers", !.input = query,
                       !.text = QueryTexts(query)])

applyParsePagination(query) ==
  /\ last' = [NoCall EXCEPT !.op = "parsePagination", !.input = query,
                             !.ret = parsePagination(query)]
  /\ UNCHANGED <<customers, addresses, sqlite_sequence>>

ListNext ==
  \/ \E query \in ListQueries : list(query)
  \/ \E query \in PagingQueries : applyParsePagination(query)

ListSpec == ListInit /\ [][ListNext]_vars

\* ---------------------------------------------------------- round trip
\* Nested addresses that differ in line1, with and without isPrimary.
RoundTripAddresses ==
  {With(With(AddressBase, "line2", ""), "line1", l) : l \in {"12 Elm St", "7 Oak Ave"}}
  \cup {With(With(AddressBase, "line2", ""), "isPrimary", v) : v \in {"true", "false"}}

RoundTripPayloads ==
  {With(With(With(PersonBase, "phone", Phone1), "email", ""), "addresses", l) :
     l \in UNION {[1..n -> RoundTripAddresses] : n \in 1..MaxRoundTrip}}

\* CustomerController.create: createCustomer(req.body); the body is kept.
create(payload) ==
  /\ sqlite_sequence.customers < MaxCustomerId
  /\ sqlite_sequence.addresses + NestedCount(payload) <= MaxAddressId
  /\ Completes(usecase_createCustomer(DB, payload),
               [NoCall EXCEPT !.op = "createCustomer", !.n = NestedCount(payload),
                  !.input = payload])

\* Bodies that break several rules of createCustomer at once: a phone or an
\* email that may be held, two primary addresses, a missing firstName.
OrderPayloads ==
  LET primary == With(With(AddressBase, "line2", ""), "isPrimary", "true")
      base == {With(With(PersonBase, "phone", ph), "email", em) :
                 ph \in {Phone1, Phone2}, em \in {"", "a@x.io"}}
      twoPrimaries == {With(b, "addresses", <<primary, primary>>) : b \in base}
  IN base \cup twoPrimaries \cup {Without(b, "firstName") : b \in twoPrimaries}

\* Bodies with nested addresses of different contents, bodies of different
\* shapes, and bodies that break several rules.
CreateBodies == RoundTripPayloads \cup ShapePayloads \cup OrderPayloads

CreateNext ==
  \/ \E payload \in CreateBodies : create(payload)
  \/ \E id \in CustomerIds : getById(id)

CreateSpec == Init /\ [][CreateNext]_vars

\* ------------------------------------------------------------ updates
\* Two customers, the first with one nested address, and patches of every
\* field of updateSchema, kept with the call.
UpdateSeeds ==
  {With(With(With(PersonBase, "phone", Phone1), "email", ""), "addresses",
        <<With(AddressBase, "line2", "")>>),
   With(With(PersonBase, "phone", Phone2), "email", "")}

UpdateBodies ==
  {[firstName |-> "Bob"], [lastName |-> "Ray"], [phone |-> PaddedPhone1], [phone |-> Phone2],
   [email |-> "a@x.io"], [accountType |-> "premium"],
   [firstName |-> "Bob", accountType |-> "premium"], <<>>}

\* CustomerController.update: updateCustomer(req.params.id, req.body); the
\* id and the body are kept.
update(id, payload) ==
  /\ id \in CustomerIds
  /\ Completes(usecase_updateCustomer(DB, id, payload),
               [NoCall EXCEPT !.op = "updateCustomer", !.customerId = id,
                  !.input = payload])

UpdateNext ==
  \/ \E payload \in UpdateSeeds : create(payload)
  \/ \E id \in CustomerIds, payload \in UpdateBodies : update(id, payload)

UpdateSpec == Init /\ [][UpdateNext]_vars

\* ------------------------------------------------------------- claims
PrimaryIds(customerId) ==
  {a.id : a \in {x \in addresses : x.customerId = customerId /\ x.isPrimary = 1}}

\* C1: every customer has at most one address whose isPrimary is 1.
AtMostOnePrimary == \A c \in customers : Cardinality(PrimaryIds(c.id)) <= 1

\* C2: after every completed operation, hasOnlyOneAddress is set exactly on
\* the customers that have exactly one address.
OnlyOneFlagMatchesCount ==
  \A c \in customers :
    (c.hasOnlyOneAddress = 1) <=> (Cardinality({a \in addresses : a.customerId = c.id}) = 1)

\* C3: no two distinct customers have the same phone.
PhoneUnique == \A c, d \in customers : c.id # d.id => c.phone # d.phone

\* C3 witness: two customers are stored and the last call was refused for a
\* phone that is held.
PhoneConflictSeen ==
  /\ Cardinality(customers) = 2
  /\ last.err \in {"Phone already exists", "Phone already used"}

\* C4: no two distinct customers have the same non-empty email.
EmailUnique ==
  \A c, d \in customers : (c.id # d.id /\ c.email # "") => c.email # d.email

\* C4 witness: two customers are stored, one of them holds an email, and the
\* last call was refused for that email.
EmailConflictSeen ==
  /\ Cardinality(customers) = 2
  /\ \E c \in customers : c.email # ""
  /\ last.err \in {"Email already exists", "Email already used"}

\* C5: an addAddress that throws after it cleared the primary flag of the
\* customer's addresses leaves every address and every customer as it was.
AddAddressAllOrNothing ==
  [][(/\ last'.op = "addAddress"
      /\ last'.err # "none"
      /\ last'.flag
      /\ PrimaryIds(last'.customerId) # {})
     => UNCHANGED <<customers, addresses, sqlite_sequence>>]_vars

\* C5 witness: the last call is an addAddress with a truthy isPrimary that
\* threw, for a customer that has a primary address.
FailedPrimaryAddSeen ==
  /\ last.op = "addAddress"
  /\ last.err # "none"
  /\ last.flag
  /\ PrimaryIds(last.customerId) # {}

\* C6: a createCustomer that throws leaves no customer row and no address
\* row behind.
CreateCustomerAtomic ==
  [][(last'.op = "createCustomer" /\ last'.err # "none")
     => UNCHANGED <<customers, addresses>>]_vars

\* C7: after a successful addAddress with isPrimary = true the inserted
\* address is the only primary address of the customer it was called for.
NewAddressIsOnlyPrimary ==
  (last.op = "addAddress" /\ last.err = "none" /\ last.flag)
    => PrimaryIds(last.customerId) = {last.addressId}

\* C8: a successful createCustomer with n nested addresses returns and stores
\* a customer with n addresses and hasOnlyOneAddress = (n = 1).
CreateStoresAllNested ==
  (last.op = "createCustomer" /\ last.err = "none")
    => /\ last.ret.found
       /\ Len(last.ret.addresses) = last.n
       /\ last.ret.hasOnlyOneAddress = (last.n = 1)
       /\ Cardinality({a \in addresses : a.customerId = last.ret.id}) = last.n
       /\ \E c \in customers :
            c.id = last.ret.id /\ c.hasOnlyOneAddress = (IF last.n = 1 THEN 1 ELSE 0)

\* C8 witness: a createCustomer with two nested addresses succeeded.
CreatedWithTwoNested ==
  last.op = "createCustomer" /\ last.err = "none" /\ last.n = 2

\* C9: markOnlyOneAddress(id, true) throws with status 400 unless the customer
\* has exactly one address, markOnlyOneAddress(id, false) throws with status
\* 400 unless it has more than one; a call that throws changes no row, and a
\* call that returns returns hasOnlyOneAddress = value.
MarkOnlyOneAddressContract ==
  [][last'.op = "markOnlyOneAddress"
     => LET cnt == Cardinality({a \in addresses : a.customerId = last'.customerId})
            value == last'.flag
        IN IF (value /\ cnt = 1) \/ (~value /\ cnt > 1)
           THEN /\ last'.err = "none"
                /\ last'.ret.found
                /\ last'.ret.hasOnlyOneAddress = value
           ELSE /\ last'.status = 400
                /\ UNCHANGED <<customers, addresses>>]_vars

\* C9 witness: markOnlyOneAddress(id, true) was refused for a customer that
\* has two addresses.
MarkRefusedWithTwo ==
  /\ last.op = "markOnlyOneAddress"
  /\ last.flag
  /\ last.status = 400
  /\ Cardinality({a \in addresses : a.customerId = last.customerId}) = 2

\* C10: createCustomer with a valid payload whose phone is held throws with
\* status 409 and changes no row.
DuplicatePhoneRejected ==
  [][(last'.op = "createCustomer" /\ last'.flag)
     => /\ last'.status = 409
        /\ UNCHANGED <<customers, addresses, sqlite_sequence>>]_vars

\* C10 witness: the last call is a createCustomer with a valid payload whose
\* phone a stored customer holds.
DuplicatePhoneSeen ==
  last.op = "createCustomer" /\ last.flag /\ customers # {}

\* Payloads of CreatePayloads in which two or more nested addresses have
\* isPrimary = true.
TwoPrimaryPayloads ==
  {p \in CreatePayloads :
     /\ Has(p, "addresses")
     /\ Cardinality({i \in DOMAIN p.addresses :
                       Has(p.addresses[i], "isPrimary") /\ p.addresses[i].isPrimary = "true"}) >= 2}

\* C11 as stated: every createCustomer whose payload has two or more primary
\* nested addresses throws 'Only one address can be primary' with status 400
\* and changes no row.
TwoPrimariesAlways400 ==
  [][\A p \in TwoPrimaryPayloads :
       (last'.op = "createCustomer" /\ createCustomer(p))
         => /\ last'.err = "Only one address can be primary"
            /\ last'.status = 400
            /\ UNCHANGED <<customers, addresses, sqlite_sequence>>]_vars

\* C11 amended: such a createCustomer changes no row; it throws 'Only one
\* address can be primary' with status 400 when the payload is otherwise
\* valid and no customer holds its phone or its email, and it throws the
\* error of the earlier rule (400 validation, 409 conflict) otherwise.
TwoPrimariesRejected ==
  [][\A p \in TwoPrimaryPayloads :
       (last'.op = "createCustomer" /\ createCustomer(p))
         => /\ UNCHANGED <<customers, addresses, sqlite_sequence>>
            /\ IF /\ CreateErrors(p) = {}
                  /\ ~\E c \in customers :
                        \/ c.phone = Trim(p.phone)
                        \/ (Truthy(p, "email") /\ p.email # "" /\ c.email = p.email)
               THEN last'.err = "Only one address can be primary" /\ last'.status = 400
               ELSE last'.status \in {400, 409}
                    /\ last'.err # "Only one address can be primary"]_vars

\* C11 witness: a createCustomer was refused for its two primary addresses
\* while a customer is stored.
TwoPrimariesRefusedSeen ==
  /\ last.op = "createCustomer"
  /\ last.err = "Only one address can be primary"
  /\ last.n = 2
  /\ customers # {}

\* C12: deleteCustomer(id) of a stored customer returns {deletedId: id} and
\* leaves neither the customer nor an address with customerId = id; an id that
\* was issued and is no longer stored is never stored again, and
\* getCustomerById(id) and deleteCustomer(id) of an id that is not stored
\* throw 'Customer not found' with status 404 and change no row.
DeleteCustomerContract ==
  [][\A id \in CustomerIds :
       LET present == \E c \in customers : c.id = id
       IN /\ (last'.op = "deleteCustomer" /\ deleteCustomer(id))
               => IF present
                  THEN /\ last'.err = "none"
                       /\ last'.ret = [deletedId |-> id]
                       /\ ~\E c \in customers' : c.id = id
                       /\ ~\E a \in addresses' : a.customerId = id
                  ELSE /\ last'.err = "Customer not found"
                       /\ last'.status = 404
                       /\ UNCHANGED <<customers, addresses, sqlite_sequence>>
          /\ (last'.op = "getCustomerById" /\ ~present /\ getById(id))
               => /\ last'.err = "Customer not found"
                  /\ last'.status = 404
                  /\ UNCHANGED <<customers, addresses, sqlite_sequence>>
          /\ (id <= sqlite_sequence.customers /\ ~present)
               => ~\E c \in customers' : c.id = id]_vars

\* C12 witness: every id was issued, every customer was deleted, addresses
\* were stored, and the last call, a getCustomerById, was refused with 404.
DeletedCustomerNotFound ==
  /\ sqlite_sequence.customers = MaxCustomerId
  /\ sqlite_sequence.addresses >= 2
  /\ customers = {}
  /\ last.op = "getCustomerById"
  /\ last.status = 404

\* C13: every addAddress, updateAddress, deleteAddress and markOnlyOneAddress
\* whose customerId is not the id of a stored customer throws with status 404
\* and changes no row.
AddressOpsNeedCustomer ==
  [][\A id \in CustomerIds :
       (/\ ~\E c \in customers : c.id = id
        /\ \/ \E address \in AddressInputs : addAddress(id, address)
           \/ \E addressId \in AddressIds, patch \in AddressPatches :
                updateAddress(id, addressId, patch)
           \/ \E addressId \in AddressIds : deleteAddress(id, addressId)
           \/ \E value \in MarkValues : markOnlyOneAddress(id, value))
         => /\ last'.status = 404
            /\ UNCHANGED <<customers, addresses, sqlite_sequence>>]_vars

\* C14: updateAddress and deleteAddress of a stored customer with an addressId
\* that is not the id of one of that customer's addresses throw with status
\* 404.
ForeignAddressNotFound ==
  [][\A id \in CustomerIds, addressId \in AddressIds :
       (/\ \E c \in customers : c.id = id
        /\ ~\E a \in addresses : a.id = addressId /\ a.customerId = id
        /\ \/ \E patch \in AddressPatches : updateAddress(id, addressId, patch)
           \/ deleteAddress(id, addressId))
         => last'.status = 404]_vars

\* C15: updateCustomer(id, patch) with a valid patch throws with status 409
\* and changes no row when a customer other than id holds patch.phone or
\* patch.email, and does not throw with status 409 when no other customer
\* holds them (id itself may, and an invalid patch is refused with 400).
UpdateConflict ==
  [][last'.op = "updateCustomer"
     => IF last'.flag
        THEN /\ last'.status = 409
             /\ UNCHANGED <<customers, addresses, sqlite_sequence>>
        ELSE last'.status # 409]_vars

\* C15 witness: two customers are stored and the last call, an
\* updateCustomer, was refused with 409.
UpdateConflictSeen ==
  /\ Cardinality(customers) = 2
  /\ last.op = "updateCustomer"
  /\ last.status = 409

\* C15 witness of the other half: a customer that holds a phone and an email
\* was updated to the phone and the email it holds.
OwnPhoneAccepted ==
  /\ last.op = "updateCustomer"
  /\ last.err = "none"
  /\ last.ret.found
  /\ last.ret.phone = Phone1
  /\ last.ret.email = "a@x.io"
  /\ Cardinality(customers) = 2

\* The text t occurs in the text s, letters without regard to case.
OccursIn(t, s) ==
  \E i \in 0..(Len(s) - Len(t)) :
    \A j \in 1..Len(t) : Lower(s[i + j]) = Lower(t[j])

\* C16: getCustomers({q}) returns exactly the customers for which q occurs,
\* letters without regard to case, in firstName, lastName, phone, email or in
\* line1, city, state or pincode of one of their addresses; % and _ in q stand
\* for themselves.
SearchIsLiteralSubstring ==
  (last.op = "getCustomers" /\ DOMAIN last.input = {"q"} /\ last.input.q # <<>>)
    => /\ last.err = "none"
       /\ {last.ret.items[i].id : i \in DOMAIN last.ret.items}
            = {c.id : c \in {x \in customers :
                  \/ \E col \in SearchedCustomerColumns : OccursIn(last.input.q, x[col])
                  \/ \E a \in addresses, col \in SearchedAddressColumns :
                       a.customerId = x.id /\ OccursIn(last.input.q, a[col])}}

\* C17: with N matching customers, getCustomers with page p >= 1 and limit l
\* in 1..100 returns total = N, pages = ceil(N / l) (0 when N = 0) and, as
\* items, the customers ranked (p-1)*l + 1 .. min(p*l, N) in the requested
\* order (createdAt descending unless the query asks otherwise).
PagingContract ==
  (/\ last.op = "getCustomers"
   /\ last.err = "none"
   /\ Has(last.input, "page") /\ Has(last.input.page, "num") /\ last.input.page.num >= 1
   /\ Has(last.input, "limit") /\ Has(last.input.limit, "num")
   /\ last.input.limit.num \in 1..100)
    => LET p == last.input.page.num
           l == last.input.limit.num
           matching == Matching(DB, last.input)
           N == Cardinality(matching)
           sortBy == IF Has(last.input, "sortBy") THEN last.input.sortBy ELSE "createdAt"
           asc == Has(last.input, "sortDir")
                    /\ last.input.sortDir \in {<<"a", "s", "c">>, <<"A", "S", "C">>}
           items == last.ret.items
           upTo == IF p * l < N THEN p * l ELSE N
       IN /\ last.ret.total = N
          /\ last.ret.page = p /\ last.ret.limit = l
          /\ last.ret.pages * l >= N /\ (last.ret.pages - 1) * l < N /\ last.ret.pages >= 0
          /\ Len(items) = (IF upTo > (p - 1) * l THEN upTo - (p - 1) * l ELSE 0)
          /\ \A i, j \in DOMAIN items : i # j => items[i].id # items[j].id
          /\ \A i \in DOMAIN items :
               \E c \in matching :
                 /\ c.id = items[i].id
                 /\ Cardinality({d \in matching : SortsBefore(d, c, sortBy, asc)})
                      < (p - 1) * l + i
                 /\ (p - 1) * l + i
                      <= Cardinality({d \in matching : ~SortsBefore(c, d, sortBy, asc)})

\* C17 witness: 25 customers, page 2 with limit 10: the 11th to the 20th most
\* recent ones, of 3 pages.
SecondPageOfThree ==
  /\ Cardinality(customers) = 25
  /\ last.op = "getCustomers"
  /\ last.input = [page |-> [num |-> 2], limit |-> [num |-> 10]]
  /\ last.err = "none"
  /\ last.ret.total = 25
  /\ last.ret.pages = 3
  /\ [i \in DOMAIN last.ret.items |-> last.ret.items[i].id] = [i \in 1..10 |-> 16 - i]

\* C18: parsePagination returns an integer page >= 1, an integer limit in
\* 1..100 and offset = (page - 1) * limit, for every query; page is 1 when the
\* query has none and limit is 10 when the query has none.
ParsePaginationInRange ==
  last.op = "parsePagination"
    => /\ ~last.ret.page.nan /\ last.ret.page.v >= 1
       /\ ~last.ret.limit.nan /\ last.ret.limit.v \in 1..100
       /\ ~last.ret.offset.nan
       /\ last.ret.offset.v = (last.ret.page.v - 1) * last.ret.limit.v
       /\ ~Has(last.input, "page") => last.ret.page.v = 1
       /\ ~Has(last.input, "limit") => last.ret.limit.v = 10

\* The positions of a payload's addresses in the order primary first, then
\* as sent.
RECURSIVE Positions(_, _, _)
Positions(sent, i, primary) ==
  IF i > Len(sent) THEN <<>>
  ELSE IF (Has(sent[i], "isPrimary") /\ sent[i].isPrimary = "true") = primary
  THEN <<i>> \o Positions(sent, i + 1, primary)
  ELSE Positions(sent, i + 1, primary)

MissingRequired(body) == {k \in {"firstName", "lastName", "phone"} : ~Has(body, k)}

\* C20: createCustomer with a body that lacks one or more of firstName,
\* lastName and phone throws 'Validation failed' with status 400 and with a
\* message for each field that is missing, and changes no row.
MissingFieldsAllReported ==
  [][(last'.op = "createCustomer" /\ MissingRequired(last'.input) # {})
     => /\ last'.err = "Validation failed"
        /\ last'.status = 400
        /\ MissingRequired(last'.input) \subseteq last'.details
        /\ Cardinality(last'.details) >= Cardinality(MissingRequired(last'.input))
        /\ UNCHANGED <<customers, addresses, sqlite_sequence>>]_vars

\* C20 witness: a body without firstName and phone was refused with both
\* reported, while a customer is stored.
TwoMissingFieldsReported ==
  /\ last.op = "createCustomer"
  /\ MissingRequired(last.input) = {"firstName", "phone"}
  /\ last.details = {"firstName", "phone"}
  /\ customers # {}

\* C21: updateAddress(customerId, addressId, patch) with an addressId that is
\* not the id of one of customerId's addresses changes no address row.
ForeignUpdateChangesNoAddress ==
  [][\A id \in CustomerIds, addressId \in AddressIds, patch \in AddressPatches :
       (/\ last'.op = "updateAddress"
        /\ ~\E a \in addresses : a.id = addressId /\ a.customerId = id
        /\ updateAddress(id, addressId, patch))
         => addresses' = addresses]_vars

\* C22: an address operation called with customer id C leaves every other
\* customer D as it was: D's row (hasOnlyOneAddress and the other fields) and
\* the rows of D's addresses, whatever address id is passed.
OtherCustomersUntouched ==
  [][\A id \in CustomerIds :
       (/\ last'.op \in {"addAddress", "updateAddress", "deleteAddress", "markOnlyOneAddress"}
        /\ \/ \E address \in AddressInputs : addAddress(id, address)
           \/ \E addressId \in AddressIds, patch \in AddressPatches :
                updateAddress(id, addressId, patch)
           \/ \E addressId \in AddressIds : deleteAddress(id, addressId)
           \/ \E value \in MarkValues : markOnlyOneAddress(id, value))
         => \A D \in customers :
              D.id # id => /\ D \in customers'
                           /\ {a \in addresses' : a.customerId = D.id}
                                = {a \in addresses : a.customerId = D.id}]_vars

\* C23: createCustomer rejects in a fixed order: shape validation (400), then
\* phone uniqueness (409), then email uniqueness (409, only for a non-empty
\* email), then the single-primary check (400).  A payload that breaks several
\* rules gets the error of the earliest one; a payload that breaks none gets
\* none of the four.
PhoneTaken(p) == \E c \in customers : c.phone = Trim(p.phone)

EmailTaken(p) == Has(p, "email") /\ p.email # "" /\ \E c \in customers : c.email = p.email

SeveralPrimaries(p) ==
  /\ Has(p, "addresses")
  /\ \E i, j \in DOMAIN p.addresses :
       i # j /\ Truthy(p.addresses[i], "isPrimary") /\ Truthy(p.addresses[j], "isPrimary")

CreateRejectionOrder ==
  [][last'.op = "createCustomer" =>
       LET p == last'.input
           e == last'.err
           st == last'.status
       IN IF CreateErrors(p) # {} THEN e = "Validation failed" /\ st = 400
          ELSE IF PhoneTaken(p) THEN e = "Phone already exists" /\ st = 409
          ELSE IF EmailTaken(p) THEN e = "Email already exists" /\ st = 409
          ELSE IF SeveralPrimaries(p) THEN e = "Only one address can be primary" /\ st = 400
          ELSE e \notin {"Validation failed", "Phone already exists",
                         "Email already exists", "Only one address can be primary"}]_vars

\* A body whose phone and email are both held and which names two primary
\* addresses was refused for its phone.
SeveralRulesBrokenSeen ==
  /\ last.op = "createCustomer"
  /\ last.err = "Phone already exists"
  /\ CreateErrors(last.input) = {}
  /\ PhoneTaken(last.input) /\ EmailTaken(last.input) /\ SeveralPrimaries(last.input)

\* C24: a successful updateCustomer(id, patch) changes, of the modelled
\* columns, only the patched fields of customer id, which take the validated
\* values; addresses, hasOnlyOneAddress, the counters and every other customer
\* stay.  The repository's updateCustomer with an empty patch writes nothing
\* and returns the current record.
UpdateCustomerFrame ==
  [][/\ \A id \in CustomerIds :
          repo_updateCustomer(DB, id, <<>>) = Ok(DB, getCustomerById(DB, id))
     /\ (last'.op = "updateCustomer" /\ last'.err = "none") =>
          LET id == last'.customerId
              value == UpdateValue(last'.input)
          IN /\ addresses' = addresses
             /\ sqlite_sequence' = sqlite_sequence
             /\ {c.id : c \in customers'} = {c.id : c \in customers}
             /\ \A c \in customers : c.id # id => c \in customers'
             /\ \A c \in customers, d \in customers' :
                  (c.id = id /\ d.id = id) =>
                    \A k \in DOMAIN c : d[k] = IF Has(value, k) THEN value[k] ELSE c[k]]_vars

\* Two fields of a customer that has an address and a flag of 1 were
\* patched while another customer existed.
TwoFieldsPatched ==
  /\ last.op = "updateCustomer" /\ last.err = "none"
  /\ Cardinality(DOMAIN last.input) = 2
  /\ Cardinality(customers) = 2
  /\ \E c \in customers : /\ c.id = last.customerId
                           /\ c.hasOnlyOneAddress = 1
                           /\ c.firstName = "Bob" /\ c.accountType = "premium"
                           /\ \E a \in addresses : a.customerId = c.id

\* C25: getCustomers returns and counts every matching customer once,
\* however many of its addresses pass the filter; without a city, state or
\* pincode filter a customer without addresses that passes the q and flag
\* filters on its own columns is counted; and total is the number of
\* customers the fetch ranges over, whatever page and limit are.
PassesOnOwnColumns(c, query) ==
  /\ HasText(query, "q") => \E col \in SearchedCustomerColumns : Like(QPattern(query), c[col])
  /\ (Has(query, "onlyOneAddress") /\ query.onlyOneAddress = "true") => c.hasOnlyOneAddress = 1
  /\ (Has(query, "onlyOneAddress") /\ query.onlyOneAddress = "false") => c.hasOnlyOneAddress = 0

EachCustomerOnce ==
  (last.op = "getCustomers" /\ last.err = "none") =>
    LET query == last.input
        items == last.ret.items
        total == last.ret.total
        matching == {c \in customers :
                       \E a \in JoinedAddresses(DB, c) : RowPasses(c, a, query)}
    IN /\ \A i, j \in DOMAIN items : items[i].id = items[j].id => i = j
       /\ \A i \in DOMAIN items : \E c \in matching : c.id = items[i].id
       /\ total = Cardinality(matching)
       /\ (\A col \in {"city", "state", "pincode"} : ~HasText(query, col))
            => \A c \in customers :
                 (AddressesOf(DB, c.id) = {} /\ PassesOnOwnColumns(c, query)) => c \in matching
       /\ \A whole \in findCustomers(DB, query, "id", TRUE, -1, 0) :
            /\ Len(whole) = total
            /\ {whole[i].id : i \in DOMAIN whole} = {c.id : c \in matching}

\* A customer with two addresses in the city asked for was listed and
\* counted once.
TwoMatchingAddressesListedOnce ==
  /\ last.op = "getCustomers" /\ last.err = "none"
  /\ HasText(last.input, "city")
  /\ last.ret.total = 1 /\ Len(last.ret.items) = 1
  /\ Cardinality({a \in addresses : /\ a.customerId = last.ret.items[1].id
                                     /\ a.city = last.input.city}) = 2

\* C26: with several filters a customer is returned exactly when it
\* satisfies each active one: city, state and pincode each ask for an address
\* of the customer with that value, onlyOneAddress 'true' or 'false' asks for
\* that flag (another value asks for nothing), q asks for an occurrence of q
\* in a searched column of the customer or of one of its addresses.
SatisfiesEach(c, query) ==
  /\ \A col \in {"city", "state", "pincode"} :
       HasText(query, col) => \E a \in addresses : a.customerId = c.id /\ a[col] = query[col]
  /\ (Has(query, "onlyOneAddress") /\ query.onlyOneAddress = "true") => c.hasOnlyOneAddress = 1
  /\ (Has(query, "onlyOneAddress") /\ query.onlyOneAddress = "false") => c.hasOnlyOneAddress = 0
  /\ HasText(query, "q")
       => \/ \E col \in SearchedCustomerColumns : OccursIn(query.q, c[col])
          \/ \E a \in addresses, col \in SearchedAddressColumns :
               a.customerId = c.id /\ OccursIn(query.q, a[col])

FiltersCombineByAnd ==
  (last.op = "getCustomers" /\ last.err = "none") =>
    /\ last.ret.total = Cardinality({c \in customers : SatisfiesEach(c, last.input)})
    /\ \A whole \in findCustomers(DB, last.input, "id", TRUE, -1, 0) :
         {whole[i].id : i \in DOMAIN whole}
           = {c.id : c \in {x \in customers : SatisfiesEach(x, last.input)}}

\* C27: no value of a getCustomers query becomes part of the text of a
\* statement: two queries that have the same filters active, the same
\* onlyOneAddress literal and the same sort direction, and differ only in
\* the values of q, city, state, pincode, sortBy, page and limit, have the same
\* statement texts prepared.
SameLiterals(q1, q2) ==
  /\ \A k \in {"q", "city", "state", "pincode"} : HasText(q1, k) <=> HasText(q2, k)
  /\ \A v \in {"true", "false"} :
       (Has(q1, "onlyOneAddress") /\ q1.onlyOneAddress = v)
         <=> (Has(q2, "onlyOneAddress") /\ q2.onlyOneAddress = v)
  /\ IsAsc(q1) <=> IsAsc(q2)

QueryTextIndependentOfValues ==
  last.op = "getCustomers" =>
    \A other \in ListQueries :
      SameLiterals(last.input, other) => QueryTexts(other) = last.text

\* C28: every persisted address belongs to a persisted customer, and an
\* addAddress called with the id of no customer persists no address row.
ReferentialIntegrity ==
  [][/\ \A a \in addresses' : \E c \in customers' : c.id = a.customerId
     /\ (last'.op = "addAddress" /\ ~\E c \in customers : c.id = last'.customerId)
          => addresses' = addresses]_vars

\* C29: the flag a successful markOnlyOneAddress(customerId, value) writes
\* is the one the address count gives: hasOnlyOneAddress = 1 exactly when the
\* customer has one address; a customer whose flag agreed with its count
\* before the call keeps its flag.
FlagPathsAgree ==
  [][(last'.op = "markOnlyOneAddress" /\ last'.err = "none")
       => /\ addresses' = addresses
          /\ \E c \in customers' : c.id = last'.customerId
          /\ \A c \in customers' :
               c.id = last'.customerId
                 => LET one == Cardinality({a \in addresses : a.customerId = c.id}) = 1
                    IN /\ (c.hasOnlyOneAddress = 1) <=> one
                       /\ (last'.ret.hasOnlyOneAddress = TRUE) <=> one
                       /\ \A b \in customers :
                            (b.id = c.id /\ ((b.hasOnlyOneAddress = 1) <=> one))
                              => c.hasOnlyOneAddress = b.hasOnlyOneAddress]_vars

\* markOnlyOneAddress(id, false) returned for a customer with two addresses.
UnmarkedWithTwo ==
  /\ last.op = "markOnlyOneAddress" /\ last.err = "none" /\ ~last.flag
  /\ Cardinality({a \in addresses : a.customerId = last.customerId}) = 2
  /\ \E c \in customers : c.id = last.customerId /\ c.hasOnlyOneAddress = 0

\* C30: for a fixed store, filter, sort and limit the pages are disjoint:
\* two getCustomers calls that differ only in the page return no customer
\* twice, also when customers have equal values in the sort column.  (Page p
\* holds min(limit, N - (p-1)*limit) customers, so disjoint pages 1..pages
\* hold every matching customer exactly once.)
PagesArePageOf(call) ==
  /\ call.op = "getCustomers" /\ call.err = "none"
  /\ Has(call.input, "page") /\ Has(call.input.page, "num") /\ call.input.page.num >= 1
  /\ Has(call.input, "limit") /\ Has(call.input.limit, "num")
  /\ call.input.limit.num \in 1..100

====
